---- MODULE Spec2Model ----
(***************************************************************************)
(* Model of the two scripts of aluque/annotate:                            *)
(*   scripts/extract.py  (pipeline "A": project points onto axes)          *)
(*   scripts/measure.py  (pipeline "B": measure lines against scales)      *)
(* Each run is getaxes/getscales -> extract -> export.  A Python exception *)
(* stops the run: err holds its name and pc the function that raised it.   *)
(*                                                                         *)
(* Strings are sequences of one-character strings.  Numbers are exact      *)
(* rationals <<n, d>> (d > 0, lowest terms); floating-point rounding is    *)
(* not modelled.  Line coordinates are drawn from lines of integer length  *)
(* so that math.sqrt is exact.                                             *)
(***************************************************************************)
EXTENDS Integers, Sequences, FiniteSets, TLC

\* Largest number of annotation records in the input file.
MaxItems == 3

-----------------------------------------------------------------------------
(* Exact arithmetic *)

Abs(n) == IF n < 0 THEN -n ELSE n

RECURSIVE GCD(_, _)
GCD(m, n) == IF n = 0 THEN m ELSE GCD(n, m % n)

Norm(n, d) ==
    LET s == IF d < 0 THEN -1 ELSE 1
        g == GCD(Abs(n), Abs(d))
    IN  <<(s * n) \div g, (s * d) \div g>>

FromInt(n) == <<n, 1>>
RAdd(x, y) == Norm(x[1] * y[2] + y[1] * x[2], x[2] * y[2])
RSub(x, y) == Norm(x[1] * y[2] - y[1] * x[2], x[2] * y[2])
RMul(x, y) == Norm(x[1] * y[1], x[2] * y[2])
\* only used with y /= 0: the callers raise ZeroDivisionError first
RDiv(x, y) == Norm(x[1] * y[2], x[2] * y[1])
RLess(x, y) == x[1] * y[2] < y[1] * x[2]
RLeq(x, y) == x[1] * y[2] <= y[1] * x[2]

RECURSIVE Pow10(_)
Pow10(n) == IF n = 0 THEN 1 ELSE 10 * Pow10(n - 1)

\* math.sqrt on the squared lengths that occur (all perfect squares)
Sqrt(n) == CHOOSE k \in 0..n : k * k = n

-----------------------------------------------------------------------------
(* Character classes of the regular expressions *)

Digits == {"0", "1", "2", "3", "5"}
Letters == {"X", "Y", "Z", "S", "T", "L", "a", "b", "e", "f", "g", "x", "_"}
\* \w
IsWord(c) == c \in Letters \cup Digits
\* \s
IsSpace(c) == c = " "
\* [\d.efg+-]
IsNum(c) == c \in Digits \cup {".", "e", "f", "g", "+", "-"}
IsDigit(c) == c \in Digits

DigitVal(c) ==
    CASE c = "0" -> 0 [] c = "1" -> 1 [] c = "2" -> 2 [] c = "3" -> 3 [] c = "5" -> 5

\* Code-point order of the characters that occur, for list.sort() on str
Ord(c) ==
    CASE c = " " -> 32 [] c = "\"" -> 34 [] c = "+" -> 43 [] c = "," -> 44
      [] c = "-" -> 45 [] c = "." -> 46 [] c = "0" -> 48 [] c = "1" -> 49
      [] c = "2" -> 50 [] c = "3" -> 51 [] c = "5" -> 53 [] c = ":" -> 58
      [] c = "L" -> 76 [] c = "S" -> 83 [] c = "T" -> 84 [] c = "X" -> 88
      [] c = "Y" -> 89 [] c = "Z" -> 90 [] c = "_" -> 95 [] c = "a" -> 97
      [] c = "b" -> 98 [] c = "e" -> 101 [] c = "f" -> 102 [] c = "g" -> 103
      [] c = "x" -> 120

NoMatch == [ok |-> FALSE, name |-> <<>>, a |-> <<>>, b |-> <<>>, islog |-> FALSE]

Slice(s, i, j) == SubSeq(s, i, j - 1)

\* r.match(name) of getaxes, read left to right from position i:
\* (?P<name>\w+):\s*(?P<a>[\d.efg+-]+)\s+(?P<b>[\d.efg+-]+)\s*(?P<islog>L?)
\* ph is the regex element being matched and m the positions where the
\* earlier elements ended.  Adjacent elements have disjoint character
\* classes, so the greedy run is the only match and nothing backtracks.
RECURSIVE scanAxis(_, _, _, _)
scanAxis(s, i, ph, m) ==
    LET more == i <= Len(s)
    IN  CASE ph = "name" ->
               IF more /\ IsWord(s[i]) THEN scanAxis(s, i + 1, ph, m)
               ELSE IF more /\ s[i] = ":" /\ i > 1 THEN scanAxis(s, i + 1, "sp1", <<i>>)
               ELSE NoMatch
          [] ph = "sp1" ->
               IF more /\ IsSpace(s[i]) THEN scanAxis(s, i + 1, ph, m)
               ELSE scanAxis(s, i, "a", Append(m, i))
          [] ph = "a" ->
               IF more /\ IsNum(s[i]) THEN scanAxis(s, i + 1, ph, m)
               ELSE IF i > m[2] THEN scanAxis(s, i, "sp2", Append(m, i))
               ELSE NoMatch
          [] ph = "sp2" ->
               IF more /\ IsSpace(s[i]) THEN scanAxis(s, i + 1, ph, m)
               ELSE IF i > m[3] THEN scanAxis(s, i, "b", Append(m, i))
               ELSE NoMatch
          [] ph = "b" ->
               IF more /\ IsNum(s[i]) THEN scanAxis(s, i + 1, ph, m)
               ELSE IF i > m[4] THEN scanAxis(s, i, "sp3", Append(m, i))
               ELSE NoMatch
          [] ph = "sp3" ->
               IF more /\ IsSpace(s[i]) THEN scanAxis(s, i + 1, ph, m)
               ELSE [ok |-> TRUE, name |-> Slice(s, 1, m[1]),
                     a |-> Slice(s, m[2], m[3]), b |-> Slice(s, m[4], m[5]),
                     islog |-> (more /\ s[i] = "L")]

MatchAxis(s) == scanAxis(s, 1, "name", <<>>)

\* r.match(name) of getscales: (?P<name>\w+):\s*(?P<length>[\d.efg+-]+)
RECURSIVE scanScale(_, _, _, _)
scanScale(s, i, ph, m) ==
    LET more == i <= Len(s)
    IN  CASE ph = "name" ->
               IF more /\ IsWord(s[i]) THEN scanScale(s, i + 1, ph, m)
               ELSE IF more /\ s[i] = ":" /\ i > 1 THEN scanScale(s, i + 1, "sp1", <<i>>)
               ELSE NoMatch
          [] ph = "sp1" ->
               IF more /\ IsSpace(s[i]) THEN scanScale(s, i + 1, ph, m)
               ELSE scanScale(s, i, "length", Append(m, i))
          [] ph = "length" ->
               IF more /\ IsNum(s[i]) THEN scanScale(s, i + 1, ph, m)
               ELSE IF i > m[2]
                    THEN [ok |-> TRUE, name |-> Slice(s, 1, m[1]),
                          a |-> Slice(s, m[2], i), b |-> <<>>, islog |-> FALSE]
               ELSE NoMatch

MatchScale(s) == scanScale(s, 1, "name", <<>>)

BadFloat == [ok |-> FALSE, val |-> <<0, 1>>]

\* the float read: (-1)^neg * mant / 10^nfrac * 10^(+-ex)
floatValue(f) ==
    LET mag == IF f.eneg THEN Norm(f.mant, Pow10(f.nfrac) * Pow10(f.ex))
               ELSE Norm(f.mant * Pow10(f.ex), Pow10(f.nfrac))
    IN  [ok |-> TRUE, val |-> IF f.neg THEN <<-mag[1], mag[2]>> ELSE mag]

\* float(tok) for a token over [\d.efg+-], read left to right:
\* [sign] (digits [. [digits]] | . digits) [e [sign] digits]; anything else
\* raises ValueError (BadFloat).  st is the part being read, f what was read:
\* nd mantissa digits, nfrac of them behind the point, ne exponent digits.
RECURSIVE scanFloat(_, _, _, _)
scanFloat(tok, i, st, f) ==
    IF i > Len(tok)
    THEN IF (st \in {"int", "frac"} /\ f.nd > 0) \/ (st = "exp" /\ f.ne > 0)
         THEN floatValue(f) ELSE BadFloat
    ELSE CASE st = "sign" ->
                IF tok[i] \in {"+", "-"}
                THEN scanFloat(tok, i + 1, "int", [f EXCEPT !.neg = (tok[i] = "-")])
                ELSE scanFloat(tok, i, "int", f)
           [] st = "int" ->
                IF IsDigit(tok[i])
                THEN scanFloat(tok, i + 1, st,
                               [f EXCEPT !.mant = 10 * @ + DigitVal(tok[i]), !.nd = @ + 1])
                ELSE IF tok[i] = "." THEN scanFloat(tok, i + 1, "frac", f)
                ELSE IF tok[i] = "e" /\ f.nd > 0 THEN scanFloat(tok, i + 1, "esign", f)
                ELSE BadFloat
           [] st = "frac" ->
                IF IsDigit(tok[i])
                THEN scanFloat(tok, i + 1, st,
                               [f EXCEPT !.mant = 10 * @ + DigitVal(tok[i]),
                                         !.nd = @ + 1, !.nfrac = @ + 1])
                ELSE IF tok[i] = "e" /\ f.nd > 0 THEN scanFloat(tok, i + 1, "esign", f)
                ELSE BadFloat
           [] st = "esign" ->
                IF tok[i] \in {"+", "-"}
                THEN scanFloat(tok, i + 1, "exp", [f EXCEPT !.eneg = (tok[i] = "-")])
                ELSE scanFloat(tok, i, "exp", f)
           [] st = "exp" ->
                IF IsDigit(tok[i])
                THEN scanFloat(tok, i + 1, st,
                               [f EXCEPT !.ex = 10 * @ + DigitVal(tok[i]), !.ne = @ + 1])
                ELSE BadFloat

ParseFloat(tok) ==
    scanFloat(tok, 1, "sign",
              [neg |-> FALSE, mant |-> 0, nd |-> 0, nfrac |-> 0,
               eneg |-> FALSE, ex |-> 0, ne |-> 0])

-----------------------------------------------------------------------------
(* Annotation records: type, name, coords, tags.  coords is a sequence of   *)
(* 2D points: one point for a "point", two for a "line".  tags.present is  *)
(* FALSE when the record has no "tags" key.                                *)

None == "<None>"
NoTags == [present |-> FALSE, set |-> {}]
Tags(S) == [present |-> TRUE, set |-> S]
Line(name, p0, p1, tags) ==
    [type |-> "line", name |-> name, coords |-> <<p0, p1>>, tags |-> tags]
Point(name, p, tags) ==
    [type |-> "point", name |-> name, coords |-> <<p>>, tags |-> tags]

\* "X: 0 100"
nX == <<"X", ":", " ", "0", " ", "1", "0", "0">>
\* "Y: 5 5"
nY == <<"Y", ":", " ", "5", " ", "5">>
\* "X:1 1e2L"
nXlog == <<"X", ":", "1", " ", "1", "e", "2", "L">>
\* "X: 0 1"
nXdeg == <<"X", ":", " ", "0", " ", "1">>
\* "Z: 2.5 -1"
nZ == <<"Z", ":", " ", "2", ".", "5", " ", "-", "1">>
\* "Y: e 1"
nYbad == <<"Y", ":", " ", "e", " ", "1">>
\* "Z: 0 5 L"
nZlog0 == <<"Z", ":", " ", "0", " ", "5", " ", "L">>
\* "ab"
nPlain == <<"a", "b">>
\* "S: 10"
nS == <<"S", ":", " ", "1", "0">>
\* "S: 3"
nS3 == <<"S", ":", " ", "3">>
\* "T: 1e1"
nT == <<"T", ":", " ", "1", "e", "1">>
\* "a,b"
nComma == <<"a", ",", "b">>
\* "L:2,x"
nLComma == <<"L", ":", "2", ",", "x">>
\* "T: g"
nTbad == <<"T", ":", " ", "g">>

ItemsA ==
    { Line(nX, <<0, 0>>, <<10, 0>>, Tags({})),
      Line(nY, <<0, 0>>, <<5, 0>>, Tags({"A"})),
      Line(nXlog, <<0, 0>>, <<10, 0>>, NoTags),
      Line(nXdeg, <<5, 0>>, <<5, 0>>, Tags({})),
      Line(nZ, <<0, 0>>, <<3, 4>>, Tags({"B"})),
      Line(nYbad, <<0, 0>>, <<10, 0>>, Tags({})),
      Line(nZlog0, <<0, 0>>, <<10, 0>>, Tags({})),
      Line(nPlain, <<0, 0>>, <<5, 0>>, Tags({"A"})),
      Point(<<"a">>, <<0, 0>>, Tags({"A"})),
      Point(<<"b">>, <<5, 0>>, Tags({"B"})),
      Point(<<"a">>, <<10, 0>>, Tags({})),
      Point(<<"x">>, <<20, 0>>, NoTags) }

ItemsB ==
    { Line(nS, <<0, 0>>, <<5, 0>>, Tags({"A"})),
      Line(nS3, <<0, 0>>, <<3, 4>>, Tags({})),
      Line(nT, <<5, 0>>, <<5, 0>>, Tags({})),
      Line(nT, <<0, 0>>, <<0, 10>>, Tags({"A", "B"})),
      Line(nLComma, <<0, 0>>, <<10, 0>>, Tags({"B"})),
      Line(nComma, <<0, 0>>, <<0, 10>>, Tags({"A"})),
      Line(nPlain, <<0, 0>>, <<5, 0>>, NoTags),
      Line(nTbad, <<0, 0>>, <<5, 0>>, Tags({})),
      Point(<<"a">>, <<5, 0>>, Tags({"A"})) }

SeqsUpTo(S, n) == UNION { [1..k -> S] : k \in 0..n }

TagArgs == {None, "", "A"}

\* "if tag": None and the empty string are falsy
Truthy(t) == t /= None /\ t /= ""

-----------------------------------------------------------------------------
(* Calibration objects *)

NoAxis == [name |-> <<>>]

\* Axis.__init__ dividing by the length at construction, as measure.py does
AxisInitEager(name, r0, r1, a, b, islog) ==
    LET l2 == (r1[1] - r0[1]) * (r1[1] - r0[1]) + (r1[2] - r0[2]) * (r1[2] - r0[2])
    IN  IF islog /\ (a[1] <= 0 \/ b[1] <= 0)
        THEN [err |-> "ValueError", ax |-> NoAxis]
        ELSE IF l2 = 0 THEN [err |-> "ZeroDivisionError", ax |-> NoAxis]
        ELSE [err |-> "",
              ax |-> [name |-> name, r0 |-> r0, r1 |-> r1, islog |-> islog,
                      delta |-> <<r1[1] - r0[1], r1[2] - r0[2]>>,
                      l2 |-> l2, l |-> Sqrt(l2), a |-> a, b |-> b]]

\* extract.py Axis.__init__; a and b arrive as floats.  With islog the stored
\* a, b stand for math.log(a), math.log(b), which raise ValueError for
\* arguments <= 0.
AxisInit(name, r0, r1, a, b, islog) ==
    LET l2 == (r1[1] - r0[1]) * (r1[1] - r0[1]) + (r1[2] - r0[2]) * (r1[2] - r0[2])
    IN  IF islog /\ (a[1] <= 0 \/ b[1] <= 0)
        THEN [err |-> "ValueError", ax |-> NoAxis]
        ELSE [err |-> "",
              ax |-> [name |-> name, r0 |-> r0, r1 |-> r1, islog |-> islog,
                      delta |-> <<r1[1] - r0[1], r1[2] - r0[2]>>,
                      l2 |-> l2, l |-> Sqrt(l2), a |-> a, b |-> b]]

\* measure.py Axis.__init__; physlen / l raises ZeroDivisionError when l = 0
ScaleInit(name, r0, r1, physlen) ==
    LET l2 == (r1[1] - r0[1]) * (r1[1] - r0[1]) + (r1[2] - r0[2]) * (r1[2] - r0[2])
        l == Sqrt(l2)
    IN  IF l = 0
        THEN [err |-> "ZeroDivisionError", ax |-> NoAxis]
        ELSE [err |-> "",
              ax |-> [name |-> name, r0 |-> r0, r1 |-> r1,
                      delta |-> <<r1[1] - r0[1], r1[2] - r0[2]>>,
                      l2 |-> l2, l |-> l, physlen |-> physlen,
                      unitperpx |-> RDiv(physlen, FromInt(l))]]

\* the body of getaxes for a line whose name gave the match m
axisOf(item, m) ==
    IF ~ParseFloat(m.a).ok \/ ~ParseFloat(m.b).ok
    THEN [err |-> "ValueError", ax |-> NoAxis]
    ELSE AxisInit(m.name, item.coords[1], item.coords[2],
                  ParseFloat(m.a).val, ParseFloat(m.b).val, m.islog)

\* the body of getscales for a line whose name gave the match m
scaleOf(item, m) ==
    IF ~ParseFloat(m.a).ok
    THEN [err |-> "ValueError", ax |-> NoAxis]
    ELSE ScaleInit(m.name, item.coords[1], item.coords[2], ParseFloat(m.a).val)

\* what one item adds to the list axes: nothing, a calibration or an exception
RECURSIVE getaxes(_, _, _)
RECURSIVE getscales(_, _, _)

addAxis(d, i, axes, r) ==
    IF r.err /= "" THEN [err |-> r.err, axes |-> axes]
    ELSE getaxes(d, i + 1, Append(axes, r.ax))

addScale(d, i, axes, r) ==
    IF r.err /= "" THEN [err |-> r.err, axes |-> axes]
    ELSE getscales(d, i + 1, Append(axes, r.ax))

\* extract.py getaxes, from item i on, axes being the list so far
getaxes(d, i, axes) ==
    IF i > Len(d) THEN [err |-> "", axes |-> axes]
    ELSE IF d[i].type /= "line" THEN getaxes(d, i + 1, axes)
    ELSE IF ~MatchAxis(d[i].name).ok THEN getaxes(d, i + 1, axes)
    ELSE addAxis(d, i, axes, axisOf(d[i], MatchAxis(d[i].name)))

\* measure.py getscales
getscales(d, i, axes) ==
    IF i > Len(d) THEN [err |-> "", axes |-> axes]
    ELSE IF d[i].type /= "line" THEN getscales(d, i + 1, axes)
    ELSE IF ~MatchScale(d[i].name).ok THEN getscales(d, i + 1, axes)
    ELSE addScale(d, i, axes, scaleOf(d[i], MatchScale(d[i].name)))

-----------------------------------------------------------------------------
(* Projector (extract.py extract) and Measurer (measure.py extract) *)

RECURSIVE NameSet(_, _)
NameSet(axes, k) == IF k = 0 THEN {} ELSE NameSet(axes, k - 1) \cup {axes[k].name}

\* {ax.name : [] for ax in axes}
EmptyCols(axes) == [k \in NameSet(axes, Len(axes)) |-> <<>>]

Dot(ax, c) == (c[1] - ax.r0[1]) * ax.delta[1] + (c[2] - ax.r0[2]) * ax.delta[2]

\* project with the parameter t clamped to the calibrated segment
projectClamped(ax, c) ==
    LET t == Norm(Dot(ax, c), ax.l2)
        tc == IF RLess(t, <<0, 1>>) THEN <<0, 1>>
              ELSE IF RLess(<<1, 1>>, t) THEN <<1, 1>> ELSE t
    IN  IF ax.islog THEN ax.a \o ax.b \o tc
        ELSE RAdd(ax.a, RMul(RSub(ax.b, ax.a), tc))

\* The value extract.py computes for point c on axis ax (ax.l2 /= 0):
\*   v = ax.a + (ax.b - ax.a) * dot / ax.l2, and math.exp(v) on a log axis.
\* A linear value is the rational <<n, d>>.  On a log axis ax.a, ax.b stand
\* for log(a), log(b) and the value exp(log a + (log b - log a) * t) is kept
\* as the 6-tuple of a, b and t = dot / l2.
project(ax, c) ==
    IF ax.islog
    THEN ax.a \o ax.b \o Norm(Dot(ax, c), ax.l2)
    ELSE RAdd(ax.a, RDiv(RMul(RSub(ax.b, ax.a), FromInt(Dot(ax, c))),
                         FromInt(ax.l2)))

\* "for ax in axes" of extract.py for one point; the division raises
\* ZeroDivisionError on an axis with l2 = 0
RECURSIVE projectAll(_, _, _, _)
projectAll(col, axes, c, k) ==
    IF k > Len(axes) THEN [err |-> "", col |-> col]
    ELSE IF axes[k].l2 = 0 THEN [err |-> "ZeroDivisionError", col |-> col]
    ELSE projectAll([col EXCEPT ![axes[k].name] = Append(@, project(axes[k], c))],
                    axes, c, k + 1)

\* item["tags"] raises KeyError when the key is missing; it is only evaluated
\* when tag is truthy
tagLookupFails(item, tag) == Truthy(tag) /\ ~item.tags.present
tagSkips(item, tag) == Truthy(tag) /\ tag \notin item.tags.set

\* extract.py extract, from item i on
RECURSIVE extractA(_, _, _, _, _)
extractA(d, axes, tag, i, col) ==
    IF i > Len(d) THEN [err |-> "", col |-> col]
    ELSE IF d[i].type /= "point" THEN extractA(d, axes, tag, i + 1, col)
    ELSE IF tagLookupFails(d[i], tag) THEN [err |-> "KeyError", col |-> col]
    ELSE IF tagSkips(d[i], tag) THEN extractA(d, axes, tag, i + 1, col)
    ELSE LET r == projectAll(col, axes, d[i].coords[1], 1)
         IN  IF r.err /= "" THEN r
             ELSE extractA(d, axes, tag, i + 1, r.col)

\* math.sqrt((c[1][0] - c[0][0])**2 + (c[1][1] - c[0][1])**2) * sc.unitperpx
measure(sc, c) ==
    RMul(FromInt(Sqrt((c[2][1] - c[1][1]) * (c[2][1] - c[1][1])
                      + (c[2][2] - c[1][2]) * (c[2][2] - c[1][2]))),
         sc.unitperpx)

RECURSIVE measureAll(_, _, _, _)
measureAll(col, scales, c, k) ==
    IF k > Len(scales) THEN col
    ELSE measureAll([col EXCEPT ![scales[k].name] = Append(@, measure(scales[k], c))],
                    scales, c, k + 1)

\* the "line" test, leaving out the lines that define a scale
measuredNoScales(item) == item.type = "line" /\ ~MatchScale(item.name).ok

\* the "line" test of the Measurer's loop
measured(item) == item.type = "line"

\* measure.py extract, from item i on
RECURSIVE extractB(_, _, _, _, _, _)
extractB(d, scales, tag, i, nms, col) ==
    IF i > Len(d) THEN [err |-> "", names |-> nms, col |-> col]
    ELSE IF ~measured(d[i]) THEN extractB(d, scales, tag, i + 1, nms, col)
    ELSE IF tagLookupFails(d[i], tag)
         THEN [err |-> "KeyError", names |-> nms, col |-> col]
    ELSE IF tagSkips(d[i], tag) THEN extractB(d, scales, tag, i + 1, nms, col)
    ELSE extractB(d, scales, tag, i + 1, Append(nms, d[i].name),
                  measureAll(col, scales, d[i].coords, 1))

-----------------------------------------------------------------------------
(* Exporter.  A written line is a sequence of atoms: a character, or the   *)
(* text of one number (repr / str of a float, which holds no comma).       *)

Chr(c) == [c |-> c, v |-> <<>>]
NumAtom(v) == [c |-> "#", v |-> v]
Text(s) == [j \in 1..Len(s) |-> Chr(s[j])]
Comma == Chr(",")
Quote == Chr("\"")

\* csv_sanitize
csv_sanitize(s) ==
    IF \E j \in 1..Len(s) : s[j] = "," THEN <<"\"">> \o s \o <<"\"">> ELSE s

\* str < str of Python: lexicographic by code point
RECURSIVE StrLess(_, _)
StrLess(s, t) ==
    IF Len(t) = 0 THEN FALSE
    ELSE IF Len(s) = 0 THEN TRUE
    ELSE IF Ord(s[1]) /= Ord(t[1]) THEN Ord(s[1]) < Ord(t[1])
    ELSE StrLess(Tail(s), Tail(t))

\* keys = list(col.keys()); keys.sort()
RECURSIVE sortedKeys(_)
sortedKeys(S) ==
    IF S = {} THEN <<>>
    ELSE LET m == CHOOSE x \in S : \A y \in S \ {x} : StrLess(x, y)
         IN  <<m>> \o sortedKeys(S \ {m})

\* ",".join(fields)
RECURSIVE join(_)
join(fields) ==
    IF Len(fields) = 0 THEN <<>>
    ELSE IF Len(fields) = 1 THEN fields[1]
    ELSE fields[1] \o <<Comma>> \o join(Tail(fields))

header(keys) == join([j \in 1..Len(keys) |-> Text(csv_sanitize(keys[j]))])

\* the data rows of extract.py export, from row i on (1-based); col[k][i]
\* raises IndexError for a column shorter than the first one
RECURSIVE rowsA(_, _, _, _, _)
rowsA(col, keys, i, n, out) ==
    IF i > n THEN [err |-> "", out |-> out]
    ELSE IF \E j \in 1..Len(keys) : Len(col[keys[j]]) < i
         THEN [err |-> "IndexError", out |-> out]
    ELSE rowsA(col, keys, i + 1, n,
               Append(out, join([j \in 1..Len(keys) |-> <<NumAtom(col[keys[j]][i])>>])))

\* export that also writes nothing when the first column is empty
exportASkipEmpty(col) ==
    LET keys == sortedKeys(DOMAIN col)
    IN  IF Len(keys) = 0 \/ Len(col[keys[1]]) = 0 THEN [err |-> "", out |-> <<>>]
        ELSE rowsA(col, keys, 1, Len(col[keys[1]]), <<header(keys)>>)

\* extract.py export
exportA(col) ==
    LET keys == sortedKeys(DOMAIN col)
    IN  IF Len(keys) = 0 THEN [err |-> "", out |-> <<>>]
        ELSE rowsA(col, keys, 1, Len(col[keys[1]]), <<header(keys)>>)

\* the first field of a data row of measure.py export: names[i]
nameField(nm) == Text(nm)

RECURSIVE rowsB(_, _, _, _, _, _)
rowsB(nms, col, keys, i, n, out) ==
    IF i > n THEN [err |-> "", out |-> out]
    ELSE IF Len(nms) < i \/ \E j \in 1..Len(keys) : Len(col[keys[j]]) < i
         THEN [err |-> "IndexError", out |-> out]
    ELSE rowsB(nms, col, keys, i + 1, n,
               Append(out, nameField(nms[i]) \o <<Comma>>
                           \o join([j \in 1..Len(keys) |-> <<NumAtom(col[keys[j]][i])>>])))

\* measure.py export
exportB(nms, col) ==
    LET keys == sortedKeys(DOMAIN col)
    IN  IF Len(keys) = 0 THEN [err |-> "", out |-> <<>>]
        ELSE rowsB(nms, col, keys, 1, Len(col[keys[1]]),
                   <<Text(<<"n", "a", "m", "e">>) \o <<Comma>> \o header(keys)>>)

-----------------------------------------------------------------------------
(* The run of main() *)

VARIABLES pipeline, data, tag, pc, err, axes, col, names, out

vars == <<pipeline, data, tag, pc, err, axes, col, names, out>>

Init ==
    /\ pipeline \in {"A", "B"}
    /\ data \in SeqsUpTo(IF pipeline = "A" THEN ItemsA ELSE ItemsB, MaxItems)
    /\ tag \in TagArgs
    /\ pc = "getaxes"
    /\ err = ""
    /\ axes = <<>>
    /\ col = <<>>
    /\ names = <<>>
    /\ out = <<>>

\* axes = getaxes(data) in extract.py main
GetAxes ==
    /\ pipeline = "A" /\ pc = "getaxes" /\ err = ""
    /\ LET r == getaxes(data, 1, <<>>)
       IN  /\ err' = r.err
           /\ axes' = IF r.err = "" THEN r.axes ELSE axes
           /\ pc' = IF r.err = "" THEN "extract" ELSE pc
    /\ UNCHANGED <<pipeline, data, tag, col, names, out>>

\* axes = getscales(data) in measure.py main
GetScales ==
    /\ pipeline = "B" /\ pc = "getaxes" /\ err = ""
    /\ LET r == getscales(data, 1, <<>>)
       IN  /\ err' = r.err
           /\ axes' = IF r.err = "" THEN r.axes ELSE axes
           /\ pc' = IF r.err = "" THEN "extract" ELSE pc
    /\ UNCHANGED <<pipeline, data, tag, col, names, out>>

\* col = extract(data, axes, tag=args.tag) in extract.py main
ExtractA ==
    /\ pipeline = "A" /\ pc = "extract" /\ err = ""
    /\ LET r == extractA(data, axes, tag, 1, EmptyCols(axes))
       IN  /\ err' = r.err
           /\ col' = IF r.err = "" THEN r.col ELSE col
           /\ pc' = IF r.err = "" THEN "export" ELSE pc
    /\ UNCHANGED <<pipeline, data, tag, axes, names, out>>

\* names, col = extract(data, axes, tag=args.tag) in measure.py main
ExtractB ==
    /\ pipeline = "B" /\ pc = "extract" /\ err = ""
    /\ LET r == extractB(data, axes, tag, 1, <<>>, EmptyCols(axes))
       IN  /\ err' = r.err
           /\ col' = IF r.err = "" THEN r.col ELSE col
           /\ names' = IF r.err = "" THEN r.names ELSE names
           /\ pc' = IF r.err = "" THEN "export" ELSE pc
    /\ UNCHANGED <<pipeline, data, tag, axes, out>>

\* export(args.output, col) in extract.py main; what was written before an
\* exception stays in the stream
ExportA ==
    /\ pipeline = "A" /\ pc = "export" /\ err = ""
    /\ LET r == exportA(col)
       IN  /\ err' = r.err
           /\ out' = r.out
           /\ pc' = IF r.err = "" THEN "done" ELSE pc
    /\ UNCHANGED <<pipeline, data, tag, axes, col, names>>

\* export(args.output, names, col) in measure.py main
ExportB ==
    /\ pipeline = "B" /\ pc = "export" /\ err = ""
    /\ LET r == exportB(names, col)
       IN  /\ err' = r.err
           /\ out' = r.out
           /\ pc' = IF r.err = "" THEN "done" ELSE pc
    /\ UNCHANGED <<pipeline, data, tag, axes, col, names>>

Next ==
    \/ GetAxes
    \/ GetScales
    \/ ExtractA
    \/ ExtractB
    \/ ExportA
    \/ ExportB

Spec == Init /\ [][Next]_vars

-----------------------------------------------------------------------------
(* Vocabulary of the properties, stated from the input rather than from    *)
(* the loops above                                                         *)

\* the record's tag set contains t; a record without tags contains nothing
ContainsTag(item, t) == item.tags.present /\ t \in item.tags.set
\* no filter is active, or the record carries the tag
Passes(item) == ~Truthy(tag) \/ ContainsTag(item, tag)
QualPoint(item) == item.type = "point" /\ Passes(item)
QualLine(item) == item.type = "line" /\ Passes(item)
\* the qualifying annotations of the run, in input order
Qual == IF pipeline = "A" THEN SelectSeq(data, QualPoint) ELSE SelectSeq(data, QualLine)
NQual == Len(Qual)

\* the parser has returned / the Projector or Measurer has returned
ParseDone == pc /= "getaxes"
ExtractDone == pc \in {"export", "done"}
\* export has acted: it returned, or it raised
ExportActed == pc = "done" \/ (pc = "export" /\ err /= "")

\* calibrations that share the name of calibration s, and its rank among them
Mult(s) == Cardinality({q \in 1..Len(axes) : axes[q].name = axes[s].name})
Rank(s) == Cardinality({q \in 1..s : axes[q].name = axes[s].name})
\* where the value of the j-th qualifying annotation for calibration s sits in
\* the column named after s
Pos(s, j) == (j - 1) * Mult(s) + Rank(s)
ValueAt(s, j) == col[axes[s].name][Pos(s, j)]

IsAxisLine(item) == item.type = "line" /\ MatchAxis(item.name).ok
IsScaleLine(item) == item.type = "line" /\ MatchScale(item.name).ok
CalLines == IF pipeline = "A" THEN SelectSeq(data, IsAxisLine) ELSE SelectSeq(data, IsScaleLine)
CalName(item) ==
    IF pipeline = "A" THEN MatchAxis(item.name).name ELSE MatchScale(item.name).name

\* t = ((c - r0) . (r1 - r0)) / |r1 - r0|^2
Param(r0, r1, c) ==
    Norm((c[1] - r0[1]) * (r1[1] - r0[1]) + (c[2] - r0[2]) * (r1[2] - r0[2]),
         (r1[1] - r0[1]) * (r1[1] - r0[1]) + (r1[2] - r0[2]) * (r1[2] - r0[2]))
Between(v, a, b) == (RLeq(a, v) /\ RLeq(v, b)) \/ (RLeq(b, v) /\ RLeq(v, a))

LinearAxes == {s \in 1..Len(axes) : ~axes[s].islog /\ axes[s].r0 /= axes[s].r1}

\* number of commas of a written line that are outside double quotes
RECURSIVE UnquotedCommas(_, _, _)
UnquotedCommas(line, i, inq) ==
    IF i > Len(line) THEN 0
    ELSE IF line[i] = Quote THEN UnquotedCommas(line, i + 1, ~inq)
    ELSE (IF line[i] = Comma /\ ~inq THEN 1 ELSE 0) + UnquotedCommas(line, i + 1, inq)

-----------------------------------------------------------------------------
(* C1 *)

\* C1: once the Projector or the Measurer has returned, every column has as
\* many values as there are qualifying annotations, in pipeline B names has
\* that length too, and so the exporter never indexes past a column or past
\* names.
C1_ColumnsAligned ==
    /\ ExtractDone =>
         /\ \A k \in DOMAIN col : Len(col[k]) = NQual
         /\ pipeline = "B" => Len(names) = NQual
    /\ err /= "IndexError"

-----------------------------------------------------------------------------
(* C2 *)

\* C2: in the Projector every axis column holds exactly the projections of the
\* qualifying points (all points when no filter is active), one per point, in
\* input order, so that index j of every column belongs to the j-th
\* qualifying point.
C2_TagFiltering ==
    (pipeline = "A" /\ ExtractDone) =>
        \A s \in 1..Len(axes) :
            col[axes[s].name] = [j \in 1..NQual |-> project(axes[s], Qual[j].coords[1])]

-----------------------------------------------------------------------------
(* C3 *)

C3_Formula(s, j) ==
    LET ax == axes[s]
        c == Qual[j].coords[1]
        t == Param(ax.r0, ax.r1, c)
        v == ValueAt(s, j)
    IN  /\ v = RAdd(ax.a, RMul(RSub(ax.b, ax.a), t))
        /\ c = ax.r0 => v = ax.a
        /\ c = ax.r1 => v = ax.b
        /\ (2 * c[1] = ax.r0[1] + ax.r1[1] /\ 2 * c[2] = ax.r0[2] + ax.r1[2])
             => RMul(FromInt(2), v) = RAdd(ax.a, ax.b)
        /\ (ax.r0 = <<0, 0>> /\ ax.r1 = <<10, 0>> /\ ax.a = <<0, 1>> /\ ax.b = <<100, 1>>)
             => /\ c = <<0, 0>> => v = <<0, 1>>
                /\ c = <<5, 0>> => v = <<50, 1>>
                /\ c = <<10, 0>> => v = <<100, 1>>
                /\ c = <<20, 0>> => v = <<200, 1>>

C3_Beyond(s, j) ==
    LET t == Param(axes[s].r0, axes[s].r1, Qual[j].coords[1])
    IN  RLess(t, <<0, 1>>) \/ RLess(<<1, 1>>, t)

\* C3 as stated: on a linear axis with r0 /= r1 every qualifying point c gets
\* a + (b - a) * t, t = ((c - r0).(r1 - r0)) / |r1 - r0|^2, unclamped: a at
\* r0, b at r1, (a + b)/2 at the midpoint, the values 0, 50, 100, 200 of the
\* example, and a value outside [a, b] for every point beyond the segment.
C3_ProjectionOutside ==
    (pipeline = "A" /\ ExtractDone) =>
        \A s \in LinearAxes : \A j \in 1..NQual :
            /\ C3_Formula(s, j)
            /\ C3_Beyond(s, j) => ~Between(ValueAt(s, j), axes[s].a, axes[s].b)

\* C3 amended: the same, the value of a point beyond the segment being
\* outside [a, b] when a /= b (with a = b every point projects to a).
C3_Projection ==
    (pipeline = "A" /\ ExtractDone) =>
        \A s \in LinearAxes : \A j \in 1..NQual :
            /\ C3_Formula(s, j)
            /\ (C3_Beyond(s, j) /\ axes[s].a /= axes[s].b)
                 => ~Between(ValueAt(s, j), axes[s].a, axes[s].b)

\* the axis "X: 0 100" on (0,0)-(10,0) has projected the point (20,0) to 200
C3_Witness ==
    /\ pipeline = "A" /\ ExtractDone
    /\ \E s \in LinearAxes : \E j \in 1..NQual :
         /\ axes[s].a = <<0, 1>> /\ axes[s].b = <<100, 1>>
         /\ Qual[j].coords[1] = <<20, 0>>
         /\ C3_Beyond(s, j)
         /\ ValueAt(s, j) = <<200, 1>>

-----------------------------------------------------------------------------
(* C4 *)

\* C4: the Calibration Parser raises nothing and returns one calibration per
\* line whose name matches the grammar, in input order, named by the matched
\* name and with the line's coordinates as r0 and r1, duplicates kept; the
\* tags and the tag filter play no part.
C4_ParserReturnsAll ==
    /\ pc = "getaxes" => err = ""
    /\ ParseDone =>
         /\ Len(axes) = Len(CalLines)
         /\ \A k \in 1..Len(axes) :
              /\ axes[k].name = CalName(CalLines[k])
              /\ axes[k].r0 = CalLines[k].coords[1]
              /\ axes[k].r1 = CalLines[k].coords[2]

-----------------------------------------------------------------------------
(* C5 *)

ExpectedHeader ==
    (IF pipeline = "B" THEN Text(<<"n", "a", "m", "e">>) \o <<Comma>> ELSE <<>>)
      \o header(sortedKeys({CalName(CalLines[k]) : k \in 1..Len(CalLines)}))

\* C5 as stated: with no calibration line, or with calibration lines but no
\* qualifying annotation, the exporter writes nothing and raises nothing.
C5_EmptyOutput ==
    (CalLines = <<>> \/ NQual = 0) =>
        /\ pc = "export" => err = ""
        /\ pc = "done" => out = <<>>

\* C5 amended: with no calibration line nothing is written; with calibration
\* lines but no qualifying annotation exactly the header row is written; the
\* exporter raises nothing in either case.
C5_EmptyOrHeader ==
    /\ (CalLines = <<>> \/ NQual = 0) => (pc = "export" => err = "")
    /\ CalLines = <<>> => out = <<>>
    /\ (pc = "done" /\ CalLines /= <<>> /\ NQual = 0) => out = <<ExpectedHeader>>

\* a run with calibrations and no qualifying annotation has finished
C5_Witness ==
    /\ pc = "done" /\ CalLines /= <<>> /\ NQual = 0
    /\ Len(data) > Len(CalLines)
    /\ Len(out) = 1

-----------------------------------------------------------------------------
(* C6 *)

LineLength(c) ==
    Sqrt((c[2][1] - c[1][1]) * (c[2][1] - c[1][1]) + (c[2][2] - c[1][2]) * (c[2][2] - c[1][2]))

\* the qualifying line j is the line that defined scale s
DefinesScale(j, s) ==
    /\ IsScaleLine(Qual[j])
    /\ MatchScale(Qual[j].name).name = axes[s].name
    /\ ParseFloat(MatchScale(Qual[j].name).a).val = axes[s].physlen
    /\ Qual[j].coords = <<axes[s].r0, axes[s].r1>>

\* C6: once the Measurer has returned, names holds the name of every line
\* that passes the tag filter, scale lines included, in input order, and
\* each such line has the value |c1 - c0| * physlen / |r1 - r0| for each
\* scale in that scale's column; a scale line measured against its own scale
\* gives its physlen, and a line of length 5 against the scale (0,0)-(5,0) of
\* physlen 10 gives 10.
C6_Measure ==
    (pipeline = "B" /\ ExtractDone) =>
        /\ names = [j \in 1..NQual |-> Qual[j].name]
        /\ \A s \in 1..Len(axes) : \A j \in 1..NQual :
             LET sc == axes[s]
                 v == ValueAt(s, j)
                 len == LineLength(Qual[j].coords)
             IN  /\ v = RDiv(RMul(FromInt(len), sc.physlen), FromInt(LineLength(<<sc.r0, sc.r1>>)))
                 /\ DefinesScale(j, s) => v = sc.physlen
                 /\ (sc.r0 = <<0, 0>> /\ sc.r1 = <<5, 0>> /\ sc.physlen = <<10, 1>> /\ len = 5)
                      => v = <<10, 1>>

\* the scale line "S: 10" on (0,0)-(5,0) has been measured against itself
C6_Witness ==
    /\ pipeline = "B" /\ ExtractDone
    /\ \E s \in 1..Len(axes) : \E j \in 1..NQual :
         /\ DefinesScale(j, s)
         /\ axes[s].physlen = <<10, 1>>
         /\ names[j] = nS
         /\ ValueAt(s, j) = <<10, 1>>

-----------------------------------------------------------------------------
(* C7 *)

Degenerate(item) == item.coords[1] = item.coords[2]
DegenerateCals == {k \in 1..Len(CalLines) : Degenerate(CalLines[k])}

\* C7 as stated: in both pipelines a division by zero is never raised by the
\* Calibration Parser, only by the Projector / Measurer.
C7_DivisionOnlyOnUse ==
    err = "ZeroDivisionError" => pc = "extract"

\* C7 amended: in the axis variant the parser returns the calibration of a
\* degenerate matched line like any other, the division by zero is raised
\* only by the Projector and only when some point qualifies; in the scale
\* variant it is raised by the Calibration Parser, which never returns a
\* degenerate scale.
C7_DivisionWhere ==
    /\ pipeline = "A" =>
         /\ err = "ZeroDivisionError" =>
              (pc = "extract" /\ NQual > 0 /\ \E s \in 1..Len(axes) : axes[s].l2 = 0)
         /\ ParseDone =>
              /\ Len(axes) = Len(CalLines)
              /\ \A k \in DegenerateCals : axes[k].l2 = 0 /\ axes[k].r0 = axes[k].r1
    /\ pipeline = "B" =>
         /\ err = "ZeroDivisionError" => (pc = "getaxes" /\ DegenerateCals /= {})
         /\ ParseDone => DegenerateCals = {}

\* a run of extract.py with a degenerate axis and no qualifying point has
\* finished without error
C7_Witness ==
    /\ pipeline = "A" /\ pc = "done" /\ err = ""
    /\ \E s \in 1..Len(axes) : axes[s].l2 = 0
    /\ \E i \in 1..Len(data) : data[i].type = "point"
    /\ Len(out) = 1

-----------------------------------------------------------------------------
(* C8 *)

\* C8: every written row has as many unquoted-comma-separated fields as the
\* header, every field value that holds a comma being quoted.
C8_CommaQuoted ==
    \A i \in 1..Len(out) :
        UnquotedCommas(out[i], 1, FALSE) = UnquotedCommas(out[1], 1, FALSE)

-----------------------------------------------------------------------------
(* C9 *)

C9_Keys == sortedKeys(DOMAIN col)
C9_Row(i) ==
    (IF pipeline = "B" THEN Text(names[i]) \o <<Comma>> ELSE <<>>)
      \o join([j \in 1..Len(C9_Keys) |-> <<NumAtom(col[C9_Keys[j]][i])>>])
C9_Header ==
    (IF pipeline = "B" THEN Text(<<"n", "a", "m", "e">>) \o <<Comma>> ELSE <<>>)
      \o join([j \in 1..Len(C9_Keys) |-> Text(csv_sanitize(C9_Keys[j]))])

\* C9: when the column set is not empty the exporter writes the header in
\* sorted column order and then one row per index of a column, each row
\* listing the columns' values in that order, behind the line's name in
\* pipeline B.
C9_HeaderAndRows ==
    (ExportActed /\ DOMAIN col /= {}) =>
        /\ err = ""
        /\ \A j \in 1..(Len(C9_Keys) - 1) : StrLess(C9_Keys[j], C9_Keys[j + 1])
        /\ out = <<C9_Header>> \o [i \in 1..Len(col[C9_Keys[1]]) |-> C9_Row(i)]

-----------------------------------------------------------------------------
(* C10 *)

Tagless(item) == ~item.tags.present \/ item.tags.set = {}

\* C10: with an active tag filter a point (pipeline A) or line (pipeline B)
\* without a tags field or with an empty tags collection is skipped: the run
\* raises no error for it and it contributes to no column.
C10_TaglessSkipped ==
    /\ err /= "KeyError"
    /\ (ExtractDone /\ Truthy(tag)) =>
         \A j \in 1..NQual : ~Tagless(Qual[j])

====
